---- MODULE Spec2Model ----
(***************************************************************************)
(* Model of the state container of MultiNetworkFaucet                       *)
(* (src/app/components/MCF.tsx): the useState object, the event handlers    *)
(* that update it through updateState (a shallow merge), the asynchronous   *)
(* continuation of handleSubmit, and the status-clearing timers.            *)
(*                                                                          *)
(* Execution model.  The component runs on one event loop.  A handler runs  *)
(* to its first await as one step; the code after an await runs as a later  *)
(* step and reads the `state` object of the render in which the handler was *)
(* invoked (a closure), while updateState merges into the current state.    *)
(* A request in flight is therefore a record holding the captured state     *)
(* (`snap`) and the await it is suspended at (`phase`).                     *)
(*                                                                          *)
(* Every event is handled against the latest render: the `state` a handler  *)
(* reads when it is invoked is the current state.  The effect on            *)
(* state.network (lines 129-136) runs in the commit of the selection that   *)
(* changed the network, so both are one step.                               *)
(*                                                                          *)
(* Amounts and pool balances are in hundredths of a token (0.01 = 1), so    *)
(* that the arithmetic of lines 192-195 is integer arithmetic.  The time of *)
(* a timer or of the simulated delay is not modelled: they fire in any      *)
(* order.  isDarkMode, mounted and the Check Balance button, which write    *)
(* only isDarkMode, mounted and balance, are left out.                      *)
(***************************************************************************)
EXTENDS Integers, Sequences, FiniteSets

VARIABLES
    address,            \* state.address
    status,             \* state.status: "", "error" or "success"
    isLoading,          \* state.isLoading
    network,            \* state.network
    amount,             \* state.amount
    balance,            \* state.balance: Null or Number(b)
    transactions,       \* state.transactions, newest first
    isLoggedIn,         \* state.isLoggedIn
    username,           \* state.username
    password,           \* state.password
    dailyRequestsLeft,  \* state.dailyRequestsLeft
    captchaValue,       \* state.captchaValue
    faucetBalance,      \* state.faucetBalance
    requests,           \* handleSubmit invocations suspended at an await
    timers              \* pending setTimeout(() => updateState({status: ''}), 3000)

vars == <<address, status, isLoading, network, amount, balance, transactions,
          isLoggedIn, username, password, dailyRequestsLeft, captchaValue,
          faucetBalance, requests, timers>>

\* The fields of `state` that neither the session nor a request writes.
formVars == <<address, network, amount, captchaValue>>

----------------------------------------------------------------------------
\* Bounds of the model.

\* Spec and FairSpec start no request once the ledger and the requests in
\* flight hold this many entries.
MaxLedger == 1
\* The same for QuotaSpec: one more than the daily quota.
MaxRequests == 6
\* Status-clearing timers pending at once.
MaxTimers == 1
\* handleSubmit invocations suspended at once (the code sets no limit).
MaxInFlight == 2

\* What the user types.
Usernames == {"demo", "Demo"}
Passwords == {"password", "Password"}
Captchas == {"12345", "00000"}
GoodAddress == "So1anaAddr"
Addresses == {GoodAddress, "0x0"}
\* What connection.getBalance may resolve to, divided by LAMPORTS_PER_SOL.
Balances == {2}
\* Transaction identifiers: a signature returned by requestAirdrop, and
\* id(Date.now().toString()).
Signatures == {"5ig"}
TimeHashes == {"0x1d"}
\* txHash before it is assigned.
NoHash == ""

----------------------------------------------------------------------------
\* Static tables.

NetworkKey == {"solana", "ethereum", "polygon", "bsc"}

tokenOptions ==
    [n \in NetworkKey |->
        CASE n = "solana"   -> <<10, 50, 100>>
          [] n = "ethereum" -> <<1, 5, 10>>
          [] n = "polygon"  -> <<10, 50, 100>>
          [] n = "bsc"      -> <<1, 5, 10>>]

networkStatus ==
    [n \in NetworkKey |-> IF n = "bsc" THEN "maintenance" ELSE "online"]

InitialDailyRequests == 5

InitialFaucetBalance ==
    [n \in NetworkKey |->
        CASE n = "solana"   -> 100000
          [] n = "ethereum" -> 1000
          [] n = "polygon"  -> 100000
          [] n = "bsc"      -> 10000]

\* state.balance is null or a number: the empty or a one-element sequence.
Null == <<>>

Number(b) == <<b>>

\* new PublicKey(a) returns for a well-formed address and throws otherwise.
PublicKeyParses(a) == a = GoodAddress

Range(s) == {s[i] : i \in 1..Len(s)}

RemoveAt(s, i) == SubSeq(s, 1, i - 1) \o SubSeq(s, i + 1, Len(s))

----------------------------------------------------------------------------
Init ==
    /\ address = ""
    /\ status = ""
    /\ isLoading = FALSE
    /\ network = "solana"
    /\ amount = tokenOptions["solana"][1]
    /\ balance = Null
    /\ transactions = <<>>
    /\ isLoggedIn = FALSE
    /\ username = ""
    /\ password = ""
    /\ dailyRequestsLeft = InitialDailyRequests
    /\ captchaValue = ""
    /\ faucetBalance = InitialFaucetBalance
    /\ requests = <<>>
    /\ timers = 0

----------------------------------------------------------------------------
\* The login form (rendered while logged out).

TypeUsername(typed) ==
    /\ ~isLoggedIn
    /\ \E u \in typed : u # username /\ username' = u
    /\ UNCHANGED <<address, status, isLoading, network, amount, balance,
                   transactions, isLoggedIn, password, dailyRequestsLeft,
                   captchaValue, faucetBalance, requests, timers>>

TypePassword(typed) ==
    /\ ~isLoggedIn
    /\ \E p \in typed : p # password /\ password' = p
    /\ UNCHANGED <<address, status, isLoading, network, amount, balance,
                   transactions, isLoggedIn, username, dailyRequestsLeft,
                   captchaValue, faucetBalance, requests, timers>>

\* The login form can be submitted: it is rendered and both inputs, which are
\* `required`, are filled in.
LoginEnabled == ~isLoggedIn /\ username # "" /\ password # ""

\* Mutant: the password is not compared.
CredentialsMatchUsernameOnly == username = "demo"

CredentialsMatch == username = "demo" /\ password = "password"

HandleLogin ==
    /\ LoginEnabled
    /\ IF CredentialsMatch
       THEN /\ isLoggedIn' = TRUE
            /\ dailyRequestsLeft' = InitialDailyRequests
            /\ UNCHANGED <<status, timers>>
       ELSE /\ timers < MaxTimers
            /\ status' = "error"
            /\ timers' = timers + 1
            /\ UNCHANGED <<isLoggedIn, dailyRequestsLeft>>
    /\ UNCHANGED <<formVars, isLoading, balance, transactions, username,
                   password, faucetBalance, requests>>

\* Mutant: logout also resets the session's history.
HandleLogoutClearsLedger ==
    /\ isLoggedIn
    /\ isLoggedIn' = FALSE
    /\ username' = ""
    /\ password' = ""
    /\ transactions' = <<>>
    /\ UNCHANGED <<formVars, status, isLoading, balance, dailyRequestsLeft,
                   faucetBalance, requests, timers>>

HandleLogout ==
    /\ isLoggedIn
    /\ isLoggedIn' = FALSE
    /\ username' = ""
    /\ password' = ""
    /\ UNCHANGED <<formVars, status, isLoading, balance, transactions,
                   dailyRequestsLeft, faucetBalance, requests, timers>>

----------------------------------------------------------------------------
\* The request form (rendered while logged in).

\* Mutant: the effect reads the options of the network selected before.
DefaultAmountStale(n) == tokenOptions[network][1]

\* The value the network-change effect gives the amount.
DefaultAmount(n) == tokenOptions[n][1]

SelectNetwork(offered) ==
    /\ isLoggedIn
    /\ \E n \in offered :
          /\ n # network
          /\ network' = n
          /\ amount' = DefaultAmount(n)
    /\ UNCHANGED <<address, status, isLoading, balance, transactions, isLoggedIn,
                   username, password, dailyRequestsLeft, captchaValue,
                   faucetBalance, requests, timers>>

SelectAmount(offered) ==
    /\ isLoggedIn
    /\ \E a \in Range(tokenOptions[network]) \cap offered :
          a # amount /\ amount' = a
    /\ UNCHANGED <<address, status, isLoading, network, balance, transactions,
                   isLoggedIn, username, password, dailyRequestsLeft,
                   captchaValue, faucetBalance, requests, timers>>

TypeAddress(typed) ==
    /\ isLoggedIn
    /\ \E a \in typed : a # address /\ address' = a
    /\ UNCHANGED <<status, isLoading, network, amount, balance, transactions,
                   isLoggedIn, username, password, dailyRequestsLeft,
                   captchaValue, faucetBalance, requests, timers>>

TypeCaptcha(typed) ==
    /\ isLoggedIn
    /\ \E c \in typed : c # captchaValue /\ captchaValue' = c
    /\ UNCHANGED <<address, status, isLoading, network, amount, balance,
                   transactions, isLoggedIn, username, password,
                   dailyRequestsLeft, faucetBalance, requests, timers>>

----------------------------------------------------------------------------
\* handleSubmit.

\* Mutant: the submit button is not disabled while a request is in flight.
SubmitEnabledWhileLoading ==
    /\ isLoggedIn
    /\ networkStatus[network] = "online"
    /\ address # ""
    /\ captchaValue # ""

\* The form's submit event can fire: the form is rendered (logged in), the
\* submit button is not disabled, and the `required` inputs are filled in.
SubmitEnabled ==
    /\ isLoggedIn
    /\ ~isLoading
    /\ networkStatus[network] = "online"
    /\ address # ""
    /\ captchaValue # ""

\* Mutant: an exhausted quota is not rejected (< for <=).
PreconditionsFailOffByOne ==
    \/ ~isLoggedIn
    \/ dailyRequestsLeft < 0
    \/ captchaValue # "12345"

\* Mutant: the captcha is not compared.
PreconditionsFailNoCaptcha ==
    \/ ~isLoggedIn
    \/ dailyRequestsLeft <= 0

\* The guard of handleSubmit's early return.
PreconditionsFail ==
    \/ ~isLoggedIn
    \/ dailyRequestsLeft <= 0
    \/ captchaValue # "12345"

\* The render's `state` that the continuation of handleSubmit keeps reading.
Snapshot ==
    [network |-> network, amount |-> amount, address |-> address,
     transactions |-> transactions, dailyRequestsLeft |-> dailyRequestsLeft,
     faucetBalance |-> faucetBalance]

NewTransaction(snap, txHash) ==
    [hash |-> txHash, network |-> snap.network, amount |-> snap.amount]

\* The three fields of the success update, computed from the captured state.
SuccessTransactions(snap, txHash) ==
    <<NewTransaction(snap, txHash)>> \o snap.transactions

SuccessDailyRequestsLeft(snap) == snap.dailyRequestsLeft - 1

\* Mutant: the pool and amount are those selected when the request completes.
SuccessFaucetBalanceSelected(snap) ==
    [snap.faucetBalance EXCEPT ![network] = @ - amount]

SuccessFaucetBalance(snap) ==
    [snap.faucetBalance EXCEPT ![snap.network] = @ - snap.amount]

PlaceholderBalance == 10

HandleSubmit(maxLedger, timeHashes) ==
    /\ SubmitEnabled
    /\ IF PreconditionsFail
       THEN \* early return: error status and its timer
            /\ timers < MaxTimers
            /\ status' = "error"
            /\ timers' = timers + 1
            /\ UNCHANGED <<isLoading, captchaValue, requests>>
       ELSE IF network = "solana" /\ ~PublicKeyParses(address)
       THEN \* new PublicKey throws before the first await: the updates of
            \* lines 168, 202 and 204 are merged in this order in one step
            /\ status' = "error"
            /\ isLoading' = FALSE
            /\ captchaValue' = ""
            /\ UNCHANGED <<requests, timers>>
       ELSE \* the request is started and suspends at its first await
            /\ Len(transactions) + Len(requests) < maxLedger
            /\ Len(requests) < MaxInFlight
            /\ isLoading' = TRUE
            /\ status' = ""
            /\ IF network = "solana"
               THEN requests' = Append(requests,
                        [phase |-> "airdrop", snap |-> Snapshot, hash |-> NoHash])
               ELSE \E h \in timeHashes :
                        requests' = Append(requests,
                            [phase |-> "delay", snap |-> Snapshot, hash |-> h])
            /\ UNCHANGED <<captchaValue, timers>>
    /\ UNCHANGED <<address, network, amount, balance, transactions, isLoggedIn,
                   username, password, dailyRequestsLeft, faucetBalance>>

\* connection.requestAirdrop resolves with the transaction signature.
AirdropReturns(i, signatures) ==
    /\ requests[i].phase = "airdrop"
    /\ \E h \in signatures :
          requests' = [requests EXCEPT ![i].phase = "confirm", ![i].hash = h]
    /\ UNCHANGED <<address, status, isLoading, network, amount, balance,
                   transactions, isLoggedIn, username, password,
                   dailyRequestsLeft, captchaValue, faucetBalance, timers>>

\* Mutant: no finally; the loading flag is cleared on success only.
NetworkCallThrowsNoFinally(i) ==
    /\ requests[i].phase \in {"airdrop", "confirm"}
    /\ status' = "error"
    /\ requests' = RemoveAt(requests, i)
    /\ UNCHANGED <<address, isLoading, network, amount, balance, transactions,
                   isLoggedIn, username, password, dailyRequestsLeft,
                   captchaValue, faucetBalance, timers>>

\* requestAirdrop or confirmTransaction rejects: catch, then finally.
NetworkCallThrows(i) ==
    /\ requests[i].phase \in {"airdrop", "confirm"}
    /\ status' = "error"
    /\ isLoading' = FALSE
    /\ captchaValue' = ""
    /\ requests' = RemoveAt(requests, i)
    /\ UNCHANGED <<address, network, amount, balance, transactions, isLoggedIn,
                   username, password, dailyRequestsLeft, faucetBalance, timers>>

\* confirmTransaction resolves: the success update, then checkBalance, which
\* for solana suspends at connection.getBalance.
ConfirmReturns(i) ==
    /\ requests[i].phase = "confirm"
    /\ status' = "success"
    /\ transactions' = SuccessTransactions(requests[i].snap, requests[i].hash)
    /\ dailyRequestsLeft' = SuccessDailyRequestsLeft(requests[i].snap)
    /\ faucetBalance' = SuccessFaucetBalance(requests[i].snap)
    /\ requests' = [requests EXCEPT ![i].phase = "balance"]
    /\ UNCHANGED <<address, isLoading, network, amount, balance, isLoggedIn,
                   username, password, captchaValue, timers>>

\* getBalance resolves or rejects (checkBalance catches), then the finally.
GetBalanceSettles(i, fetched) ==
    /\ requests[i].phase = "balance"
    /\ \/ \E b \in fetched : balance' = Number(b)
       \/ balance' = Null
    /\ isLoading' = FALSE
    /\ captchaValue' = ""
    /\ requests' = RemoveAt(requests, i)
    /\ UNCHANGED <<address, status, network, amount, transactions, isLoggedIn,
                   username, password, dailyRequestsLeft, faucetBalance, timers>>

\* The simulated path: the 2000 ms delay elapses; the success update,
\* checkBalance (which does not suspend) and the finally run in one step.
DelayElapses(i) ==
    /\ requests[i].phase = "delay"
    /\ status' = "success"
    /\ transactions' = SuccessTransactions(requests[i].snap, requests[i].hash)
    /\ dailyRequestsLeft' = SuccessDailyRequestsLeft(requests[i].snap)
    /\ faucetBalance' = SuccessFaucetBalance(requests[i].snap)
    /\ balance' = Number(PlaceholderBalance)
    /\ isLoading' = FALSE
    /\ captchaValue' = ""
    /\ requests' = RemoveAt(requests, i)
    /\ UNCHANGED <<address, network, amount, isLoggedIn, username, password,
                   timers>>

\* A status timer fires: updateState({ status: '' }).
TimerFires ==
    /\ timers > 0
    /\ timers' = timers - 1
    /\ status' = ""
    /\ UNCHANGED <<address, isLoading, network, amount, balance, transactions,
                   isLoggedIn, username, password, dailyRequestsLeft,
                   captchaValue, faucetBalance, requests>>

----------------------------------------------------------------------------
\* One step of the component, the user's inputs drawn from the scope `sc`.
Step(sc) ==
    \/ TypeUsername(sc.usernames)
    \/ TypePassword(sc.passwords)
    \/ HandleLogin
    \/ HandleLogout
    \/ SelectNetwork(sc.networks)
    \/ SelectAmount(sc.amounts)
    \/ TypeAddress(sc.addresses)
    \/ TypeCaptcha(sc.captchas)
    \/ HandleSubmit(sc.maxLedger, TimeHashes)
    \/ \E i \in 1..Len(requests) : AirdropReturns(i, Signatures)
    \/ \E i \in 1..Len(requests) : NetworkCallThrows(i)
    \/ \E i \in 1..Len(requests) : ConfirmReturns(i)
    \/ \E i \in 1..Len(requests) : GetBalanceSettles(i, Balances)
    \/ \E i \in 1..Len(requests) : DelayElapses(i)
    \/ TimerFires

\* Every input the forms offer; few requests.
WideScope ==
    [usernames |-> Usernames, passwords |-> Passwords, networks |-> NetworkKey,
     amounts |-> {1, 5, 10, 50, 100}, addresses |-> Addresses,
     captchas |-> Captchas, maxLedger |-> MaxLedger]

\* Enough requests to exhaust the daily quota; the valid credentials and
\* address only, and the amount is changed only where no request is possible.
QuotaScope ==
    [usernames |-> {"demo"}, passwords |-> {"password"},
     networks |-> {"solana", "polygon", "bsc"}, amounts |-> {1, 5},
     addresses |-> {GoodAddress}, captchas |-> Captchas,
     maxLedger |-> MaxRequests]

\* Every address and captcha, the valid credentials only; few requests.
FairScope ==
    [usernames |-> {"demo"}, passwords |-> {"password"},
     networks |-> {"solana", "polygon", "bsc"}, amounts |-> {1, 5},
     addresses |-> Addresses, captchas |-> Captchas, maxLedger |-> MaxLedger]

Next == Step(WideScope)

Spec == Init /\ [][Next]_vars

QuotaNext == Step(QuotaScope)

QuotaSpec == Init /\ [][QuotaNext]_vars

\* A request in flight moves on: each awaited call returns or throws.
Settle ==
    \E i \in 1..Len(requests) :
        \/ AirdropReturns(i, Signatures)
        \/ NetworkCallThrows(i)
        \/ ConfirmReturns(i)
        \/ GetBalanceSettles(i, Balances)
        \/ DelayElapses(i)

\* Timers fire and awaited calls settle.
Fairness == WF_vars(TimerFires) /\ WF_vars(Settle)

FairNext == Step(FairScope)

FairSpec == Init /\ [][FairNext]_vars /\ Fairness

----------------------------------------------------------------------------
\* Steps and conditions the properties speak of.

\* The success update of request i (lines 189-197).
SuccessStep(i) == ConfirmReturns(i) \/ DelayElapses(i)

\* A precondition of a request, as the specification lists them, fails.
PreconditionViolated ==
    \/ dailyRequestsLeft = 0
    \/ ~isLoggedIn
    \/ captchaValue # "12345"

\* A request that passed its preconditions fails: the address parser throws
\* in handleSubmit, or an awaited network call rejects.
FailureStep ==
    \/ /\ HandleSubmit(MaxLedger, TimeHashes)
       /\ ~PreconditionViolated
       /\ network = "solana"
       /\ address # GoodAddress
    \/ \E i \in 1..Len(requests) : NetworkCallThrows(i)

----------------------------------------------------------------------------
\* C1 (checked under QuotaSpec): every success update makes the ledger
\* exactly one entry longer, with the new transaction at the head and the
\* previous entries behind it in the same order, and makes dailyRequestsLeft
\* exactly 1 smaller than it was just before the update, whatever the user
\* did while the request was in flight.
SuccessPrependsAndDecrements ==
    [][\A i \in 1..Len(requests) :
          SuccessStep(i) =>
             /\ Len(transactions') = Len(transactions) + 1
             /\ transactions'[1] =
                   NewTransaction(requests[i].snap, requests[i].hash)
             /\ Tail(transactions') = transactions
             /\ dailyRequestsLeft' = dailyRequestsLeft - 1]_vars

\* C2 (checked under QuotaSpec): a request submitted while the quota is 0,
\* the user is not logged in or the captcha is not "12345" fails: status
\* becomes 'error', no request is started and isLoading stays false, and the
\* ledger, dailyRequestsLeft and the pools are unchanged.
RejectedRequestChangesNothing ==
    [][(HandleSubmit(MaxRequests, TimeHashes) /\ PreconditionViolated) =>
          /\ status' = "error"
          /\ isLoading' = FALSE
          /\ requests' = requests
          /\ transactions' = transactions
          /\ dailyRequestsLeft' = dailyRequestsLeft
          /\ faucetBalance' = faucetBalance]_vars

\* C2 witness: a request was rejected with the right captcha because the
\* quota is exhausted.
RejectedAtZeroQuota ==
    /\ isLoggedIn
    /\ dailyRequestsLeft = 0
    /\ captchaValue = "12345"
    /\ status = "error"
    /\ timers > 0
    /\ ~isLoading

\* C3 (checked under Spec): a login attempt logs in iff username is "demo"
\* and password is "password"; a successful one sets dailyRequestsLeft to 5,
\* a failed one leaves isLoggedIn false and dailyRequestsLeft unchanged and
\* sets status to 'error'.
LoginIffCredentials ==
    [][HandleLogin =>
          IF username = "demo" /\ password = "password"
          THEN isLoggedIn' = TRUE /\ dailyRequestsLeft' = 5
          ELSE /\ isLoggedIn' = FALSE
               /\ dailyRequestsLeft' = dailyRequestsLeft
               /\ status' = "error"]_vars

\* C3 witness: logged in again after a request had used one unit of quota.
ReloginResetsQuota ==
    /\ isLoggedIn
    /\ Len(transactions) = 1
    /\ requests = <<>>
    /\ dailyRequestsLeft = 5

\* C4 (checked under QuotaSpec): dailyRequestsLeft is never negative.
QuotaNeverNegative == dailyRequestsLeft >= 0

\* C4 witness: the quota is exhausted.
QuotaExhausted ==
    /\ dailyRequestsLeft = 0
    /\ Len(transactions) >= InitialDailyRequests

\* C5 (checked under FairSpec): whenever status is 'error', it is eventually
\* cleared to '' with no further user action, timers firing and awaited
\* calls settling.
ErrorStatusClears == (status = "error") ~> (status = "")

\* C6 (checked under FairSpec): a request that fails after passing its
\* preconditions sets status to 'error', leaves dailyRequestsLeft, the ledger
\* and the pools unchanged and sets isLoading to false; and a loading
\* component eventually stops loading, awaited calls settling.
FailureRestoresIdle ==
    /\ [][FailureStep =>
             /\ status' = "error"
             /\ isLoading' = FALSE
             /\ dailyRequestsLeft' = dailyRequestsLeft
             /\ transactions' = transactions
             /\ faucetBalance' = faucetBalance]_vars
    /\ isLoading ~> ~isLoading

\* C6 witness: an error status that no timer was set for, which only the
\* catch block of handleSubmit produces, with the loading flag cleared.
FailedRequestIdle ==
    /\ status = "error"
    /\ timers = 0
    /\ ~isLoading
    /\ requests = <<>>
    /\ captchaValue = ""

NetworkChangeResetsAmount ==
    /\ [][network' # network => amount' = tokenOptions[network'][1]]_vars
    /\ [](amount \in Range(tokenOptions[network]))

\* C8 witness: the largest solana amount was selected and submitted, and
\* while that request is in flight ethereum is selected with its first amount.
AmountResetDuringRequest ==
    /\ Len(requests) = 1
    /\ requests[1].snap.network = "solana"
    /\ requests[1].snap.amount = 100
    /\ network = "ethereum"
    /\ amount = 1

\* C9 (checked under Spec): logout sets isLoggedIn to false, clears username
\* and password, and changes no other field.
LogoutFrame ==
    [][HandleLogout =>
          /\ isLoggedIn' = FALSE
          /\ username' = ""
          /\ password' = ""
          /\ UNCHANGED <<address, status, isLoading, network, amount, balance,
                         transactions, dailyRequestsLeft, captchaValue,
                         faucetBalance, requests, timers>>]_vars

\* C9 witness: logged out after a transaction was recorded and its pool
\* debited; both are still there.
LoggedOutKeepsLedger ==
    /\ ~isLoggedIn
    /\ username = ""
    /\ password = ""
    /\ Len(transactions) > 0
    /\ faucetBalance # InitialFaucetBalance

\* C10 (checked under QuotaSpec): at most one request is in flight, and it
\* is in flight exactly while isLoading is true; until its success update
\* the ledger and pools it captured are the current ones.
AtMostOneRequestInFlight ==
    /\ Len(requests) <= 1
    /\ isLoading <=> requests # <<>>
    /\ \A i \in 1..Len(requests) :
          requests[i].phase # "balance" =>
             /\ requests[i].snap.transactions = transactions
             /\ requests[i].snap.faucetBalance = faucetBalance

\* C10 witness: the user logged out and in again while a request is in
\* flight (the quota differs from the captured one) and the form is filled
\* in, so that only the disabled button prevents a second request.
ReloginDuringRequest ==
    /\ Len(requests) = 1
    /\ requests[1].phase # "balance"
    /\ isLoggedIn
    /\ dailyRequestsLeft # requests[1].snap.dailyRequestsLeft
    /\ networkStatus[network] = "online"
    /\ address # ""
    /\ captchaValue = "12345"

====
